---- MODULE Spec2Model ----
(***************************************************************************)
(* Wavetable oscillator of wavetable1.c (truncating) and wavetable2.c      *)
(* (interpolating): filltable, sineCallback and main's stream lifecycle.   *)
(*                                                                         *)
(* Number representation.  The C code works on `float`.  The model keeps   *)
(* the values that are exact on a fixed grid:                              *)
(*   - a phase (wave.n) is an integer count of 1/PhaseDen table slots;     *)
(*   - a table sample is an integer count of 1/SampleScale of full scale;  *)
(*   - an amplitude is a rational [num, den];                              *)
(*   - a frequency is a whole number of Hz.                                *)
(* The per-sample increment is rounded to the nearest grid point, as the   *)
(* float product frequency * TABLE_LENGTH * oneoversr is rounded to the    *)
(* nearest float.  TABLE_LENGTH is scaled down from the source's 1024 so   *)
(* that the state space is finite and small; every computation below is    *)
(* written in terms of TABLE_LENGTH and does not depend on its value.      *)
(***************************************************************************)
EXTENDS Integers, Sequences, FiniteSets, TLC

VARIABLES
    variant,      \* 1: wavetable1.c (truncating), 2: wavetable2.c (interpolating)
    pc,           \* main's position
    argv1,        \* wavetable1 only: what argv[1] is
    target_freq,  \* wavetable1 main's local target_freq
    targetSet,    \* ghost: sscanf stored a parsed number into target_freq
    table,        \* main's local table1 / table2
    wave,         \* main's local wave1 / wave2 (the callback's userData)
    waveInit,     \* ghost: main has initialised the wave struct
    err,          \* main's local err
    streamActive, \* the audio engine is invoking the callback
    failedAt,     \* ghost: the lifecycle step that jumped to the error label
    ret,          \* main's return value ("none" until main returns)
    beyond,       \* the memory word just past the end of the table array
    call,         \* record of the last sineCallback call
    k,            \* frames produced since the oscillator was started
    n0,           \* the phase the oscillator was started with
    hist          \* every value stored to an output buffer since the start, in order

vars == << variant, pc, argv1, target_freq, targetSet, table, wave, waveInit,
           err, streamActive, failedAt, ret, beyond, call, k, n0, hist >>

-----------------------------------------------------------------------------
(* Scale of the model *)

TABLE_LENGTH == 4     \* table slots (the source uses 1024)
PhaseDen     == 25    \* phase grid: 1/PhaseDen of a table slot
SampleScale  == 8     \* sample grid: 1/SampleScale of full scale
MaxFrames    == 3     \* largest framesPerBuffer of one call
MaxSamples   == 6     \* frames produced in one behaviour

(* Program constants *)

SAMPLE_RATE == 44100
FREQUENCY   == 440
MAX_AMP     == [num |-> 1, den |-> 2]
UnitAmp     == [num |-> 1, den |-> 1]

\* The phase value TABLE_LENGTH, in grid units.
TLen == TABLE_LENGTH * PhaseDen

\* Frequencies (Hz) the oscillator is driven with: zero, the fixed tone of
\* wavetable2, and tones whose increment is 1, 2, TABLE_LENGTH, more than
\* TABLE_LENGTH and twice TABLE_LENGTH slots at the base scale.
Freqs == {0, FREQUENCY, SAMPLE_RATE \div 4, SAMPLE_RATE \div 2, SAMPLE_RATE,
          (5 * SAMPLE_RATE) \div 4, 2 * SAMPLE_RATE}

Amps == {MAX_AMP, UnitAmp}

\* Contents the word past the table may have.
Garbage == {0, 3 * SampleScale}

paNoError  == "paNoError"
PaFailures == {"paInternalError", "paUnanticipatedHostError"}
paNoDevice == "paNoDevice"

-----------------------------------------------------------------------------
(* filltable *)

\* sin(2*pi*i/length) on the sample grid (Bhaskara's rational form of the
\* sine, exact at the quarter points), truncated to the grid as the double
\* result of sin() is narrowed to the table's float.
SinQ(i, length) ==
    LET h == IF 2 * i <= length THEN 2 * i ELSE 2 * i - length
        num == 16 * h * (length - h)
        den == 5 * length * length - 4 * h * (length - h)
        mag == (SampleScale * num) \div den
    IN  IF 2 * i <= length THEN mag ELSE 0 - mag

\* The array main declares: TABLE_LENGTH slots in wavetable1.c,
\* TABLE_LENGTH + 1 in wavetable2.c.
TableSlots(v) == IF v = 1 THEN TABLE_LENGTH ELSE TABLE_LENGTH + 1

\* The array before filltable ran (contents are never read before then).
TableBlank(v) == [i \in 0 .. TableSlots(v) - 1 |-> 0]

\* filltable(table, length): one sine cycle; wavetable2.c appends 0.
filltable(v, length) ==
    [i \in 0 .. (IF v = 1 THEN length - 1 ELSE length) |->
        IF i = length THEN 0 ELSE SinQ(i, length)]

-----------------------------------------------------------------------------
(* sineCallback *)

\* data->frequency * TABLE_LENGTH * oneoversr, rounded to the nearest
\* representable phase.
Increment(frequency) ==
    (2 * frequency * TABLE_LENGTH * PhaseDen + SAMPLE_RATE) \div (2 * SAMPLE_RATE)

\* while (data->n > TABLE_LENGTH) data->n -= TABLE_LENGTH;
RECURSIVE Wrap(_)
Wrap(n) == IF n > TLen THEN Wrap(n - TLen) ELSE n

\* data->wavetable[idx]: a read past the array yields the adjacent word.
ReadTable(tbl, idx, cell) == IF idx \in DOMAIN tbl THEN tbl[idx] ELSE cell

\* (int)data->n for a non-negative phase.
IntPart(n) == n \div PhaseDen

\* The table indices one frame reads.
FrameReads(v, n) ==
    IF v = 1 THEN << IntPart(n) >> ELSE << IntPart(n), IntPart(n) + 1 >>

\* y of one frame.  wavetable1.c: amplitude * table[(int)n], in units of
\* 1/(amplitude.den * SampleScale).  wavetable2.c: f = n - (int)n and
\* amplitude * ((1 - f) * table[(int)n] + f * table[(int)n + 1]), in units of
\* 1/(amplitude.den * SampleScale * PhaseDen).
FrameSample(v, data, tbl, cell) ==
    LET i == IntPart(data.n)
        f == data.n - i * PhaseDen
    IN  IF v = 1
        THEN data.amplitude.num * ReadTable(tbl, i, cell)
        ELSE data.amplitude.num *
               ((PhaseDen - f) * ReadTable(tbl, i, cell)
                 + f * ReadTable(tbl, i + 1, cell))

\* Variation of AdvancePhase: the step also stores the increment-scaled
\* frequency back into the struct (a glide written into data->frequency).
AdvancePhaseRetune(data) ==
    [data EXCEPT !.n = Wrap(data.n + Increment(data.frequency)),
                 !.frequency = 2 * data.frequency]

\* data->n += increment; then the wrap loop.  Only data->n is stored.
AdvancePhase(data) ==
    [data EXCEPT !.n = Wrap(data.n + Increment(data.frequency))]

\* Variation of WriteFrame: the right channel's store is missing.
WriteFrameMono(st, y) ==
    [st EXCEPT !.out = st.out + 1,
               !.writes = Append(st.writes, [slot |-> st.out, val |-> y])]

\* *out++ = y (left); *out++ = y (right).  `out` is the cursor, `writes`
\* the log of stores to the output buffer.
WriteFrame(st, y) ==
    [st EXCEPT !.out = st.out + 2,
               !.writes = st.writes \o << [slot |-> st.out, val |-> y],
                                         [slot |-> st.out + 1, val |-> y] >>]

\* One iteration of the for loop.
Frame(v, tbl, cell, st) ==
    LET y    == FrameSample(v, st.data, tbl, cell)
        pre  == st.data.n + Increment(st.data.frequency)
        data == AdvancePhase(st.data)
    IN  WriteFrame([st EXCEPT !.data = data,
                              !.reads = st.reads \o FrameReads(v, st.data.n),
                              !.pre = Append(st.pre, pre),
                              !.post = Append(st.post, data.n),
                              !.ys = Append(st.ys, y)], y)

RECURSIVE Frames(_, _, _, _, _, _)
Frames(v, tbl, cell, st, i, F) ==
    IF i >= F THEN st ELSE Frames(v, tbl, cell, Frame(v, tbl, cell, st), i + 1, F)

\* The state of a call on entry: the caller's struct, the cursor at the
\* start of the output buffer, nothing read or written yet.
Entry(data, F) ==
    [data |-> data, F |-> F, out |-> 0, writes |-> << >>, reads |-> << >>,
     pre |-> << >>, post |-> << >>, ys |-> << >>]

\* Variation of sineCallback: the call starts from the struct's initial
\* phase (phase * TABLE_LENGTH) instead of the phase the last call left.
sineCallbackRestart(v, data, tbl, cell, F) ==
    Frames(v, tbl, cell,
           Entry([data EXCEPT !.n = data.phase * TABLE_LENGTH], F), 0, F)

\* sineCallback(..., outputBuffer, framesPerBuffer = F, ..., userData = data)
sineCallback(v, data, tbl, cell, F) == Frames(v, tbl, cell, Entry(data, F), 0, F)

-----------------------------------------------------------------------------
(* The audio engine invoking the callback *)

\* The values of a log of stores, in the order stored.
Stored(writes) == [j \in 1 .. Len(writes) |-> writes[j].val]

\* One call of sineCallback by the engine on the struct main passed as
\* userData: the call stores through data (wave) and into the output buffer.
SineCallbackStep ==
    /\ streamActive
    /\ wave.wavetable = "table"
    /\ \E F \in 0 .. MaxFrames :
         /\ k + F <= MaxSamples
         /\ LET r == sineCallback(variant, wave, table, beyond, F)
            IN  /\ wave' = r.data
                /\ call' = r
                /\ k' = k + F
                /\ hist' = hist \o Stored(r.writes)
    /\ UNCHANGED << variant, pc, argv1, target_freq, targetSet, table, waveInit,
                    err, streamActive, failedAt, ret, beyond, n0 >>

-----------------------------------------------------------------------------
(* main *)

\* The wave struct before main initialises it (never read before then).
WaveBlank ==
    [frequency |-> 0, amplitude |-> [num |-> 0, den |-> 1], phase |-> 0,
     wavetable |-> "unset", n |-> 0]

\* What argv[1] can be for wavetable1: missing, not a number, a number.
Args ==
    {[kind |-> "absent", val |-> 0], [kind |-> "text", val |-> 0]}
      \cup {[kind |-> "number", val |-> f] : f \in Freqs}

\* wavetable1.c: printf; sscanf(argv[1], "%f", &target_freq), with no test
\* of argc or of sscanf's result.  A number is stored.  On text sscanf
\* stores nothing and target_freq stays indeterminate.  With argv[1]
\* missing sscanf is handed a null pointer: the process faults, or goes on
\* with target_freq indeterminate.
ParseArgs ==
    /\ pc = "parse"
    /\ \/ /\ argv1.kind = "number"
          /\ target_freq' = argv1.val
          /\ targetSet' = TRUE
          /\ pc' = "fill"
       \/ /\ argv1.kind \in {"text", "absent"}
          /\ \E g \in Freqs : target_freq' = g
          /\ targetSet' = FALSE
          /\ pc' = "fill"
       \/ /\ argv1.kind = "absent"
          /\ pc' = "crashed"
          /\ UNCHANGED << target_freq, targetSet >>
    /\ UNCHANGED << variant, argv1, table, wave, waveInit, err, streamActive,
                    failedAt, ret, beyond, call, k, n0, hist >>

\* filltable(table, TABLE_LENGTH)
FillTable ==
    /\ pc = "fill"
    /\ table' = filltable(variant, TABLE_LENGTH)
    /\ pc' = "init_wave"
    /\ UNCHANGED << variant, argv1, target_freq, targetSet, wave, waveInit, err,
                    streamActive, failedAt, ret, beyond, call, k, n0, hist >>

\* Initialize data for use by callback.
InitWave ==
    /\ pc = "init_wave"
    /\ wave' = [frequency |-> IF variant = 1 THEN target_freq ELSE FREQUENCY,
                amplitude |-> MAX_AMP,
                phase     |-> 0,
                wavetable |-> "table",
                n         |-> 0 + 0 * TABLE_LENGTH]
    /\ waveInit' = TRUE
    /\ n0' = wave'.n
    /\ pc' = "pa_init"
    /\ UNCHANGED << variant, argv1, target_freq, targetSet, table, err,
                    streamActive, failedAt, ret, beyond, call, k, hist >>

\* err = <a PortAudio call>; if (err != paNoError) goto error;
PaCall(at, next) ==
    /\ pc = at
    /\ \E r \in {paNoError} \cup PaFailures :
         /\ err' = r
         /\ IF r /= paNoError
            THEN pc' = "error" /\ failedAt' = at
            ELSE pc' = next /\ failedAt' = failedAt

PaInitialize ==
    /\ PaCall("pa_init", "get_device")
    /\ UNCHANGED << variant, argv1, target_freq, targetSet, table, wave, waveInit,
                    streamActive, ret, beyond, call, k, n0, hist >>

\* outputParameters.device = Pa_GetDefaultOutputDevice(); on paNoDevice
\* main prints and jumps to error, leaving err as Pa_Initialize set it.
GetDefaultOutputDevice ==
    /\ pc = "get_device"
    /\ \E d \in {paNoDevice, "device0"} :
         IF d = paNoDevice
         THEN pc' = "error" /\ failedAt' = "get_device"
         ELSE pc' = "open" /\ failedAt' = failedAt
    /\ UNCHANGED << variant, argv1, target_freq, targetSet, table, wave, waveInit,
                    err, streamActive, ret, beyond, call, k, n0, hist >>

PaOpenStream ==
    /\ PaCall("open", "start")
    /\ UNCHANGED << variant, argv1, target_freq, targetSet, table, wave, waveInit,
                    streamActive, ret, beyond, call, k, n0, hist >>

\* Pa_StartStream: on success the engine starts calling sineCallback.
PaStartStream ==
    /\ PaCall("start", "sleep")
    /\ streamActive' = (err' = paNoError)
    /\ UNCHANGED << variant, argv1, target_freq, targetSet, table, wave, waveInit,
                    ret, beyond, call, k, n0, hist >>

\* Pa_Sleep(NUM_SECONDS * 1000.)
PaSleep ==
    /\ pc = "sleep"
    /\ pc' = "stop"
    /\ UNCHANGED << variant, argv1, target_freq, targetSet, table, wave, waveInit,
                    err, streamActive, failedAt, ret, beyond, call, k, n0, hist >>

\* Pa_StopStream: on success the engine has stopped calling sineCallback;
\* on failure the stream is left as it was.
PaStopStream ==
    /\ PaCall("stop", "close")
    /\ streamActive' = IF err' = paNoError THEN FALSE ELSE streamActive
    /\ UNCHANGED << variant, argv1, target_freq, targetSet, table, wave, waveInit,
                    ret, beyond, call, k, n0, hist >>

PaCloseStream ==
    /\ PaCall("close", "terminate")
    /\ UNCHANGED << variant, argv1, target_freq, targetSet, table, wave, waveInit,
                    streamActive, ret, beyond, call, k, n0, hist >>

\* Pa_Terminate(); printf("Finished.\n"); return err;
Finish ==
    /\ pc = "terminate"
    /\ streamActive' = FALSE
    /\ ret' = err
    /\ pc' = "returned"
    /\ UNCHANGED << variant, argv1, target_freq, targetSet, table, wave, waveInit,
                    err, failedAt, beyond, call, k, n0, hist >>

\* error: Pa_Terminate(); fprintf ...; return err;
ErrorHandler ==
    /\ pc = "error"
    /\ streamActive' = FALSE
    /\ ret' = err
    /\ pc' = "returned"
    /\ UNCHANGED << variant, argv1, target_freq, targetSet, table, wave, waveInit,
                    err, failedAt, beyond, call, k, n0, hist >>

-----------------------------------------------------------------------------
(* The two programs, from process start *)

Init ==
    /\ variant \in {1, 2}
    /\ pc = IF variant = 1 THEN "parse" ELSE "fill"
    /\ argv1 \in IF variant = 1 THEN Args ELSE {[kind |-> "unused", val |-> 0]}
    /\ target_freq = 0
    /\ targetSet = FALSE
    /\ table = TableBlank(variant)
    /\ wave = WaveBlank
    /\ waveInit = FALSE
    /\ err = paNoError
    /\ streamActive = FALSE
    /\ failedAt = "none"
    /\ ret = "none"
    /\ beyond \in Garbage
    /\ call = Entry(WaveBlank, 0)
    /\ k = 0
    /\ n0 = 0
    /\ hist = << >>

Next ==
    \/ ParseArgs
    \/ FillTable
    \/ InitWave
    \/ PaInitialize
    \/ GetDefaultOutputDevice
    \/ PaOpenStream
    \/ PaStartStream
    \/ PaSleep
    \/ PaStopStream
    \/ PaCloseStream
    \/ Finish
    \/ ErrorHandler
    \/ SineCallbackStep

Spec == Init /\ [][Next]_vars

-----------------------------------------------------------------------------
(* The oscillator alone: sineCallback driven from any struct a caller can  *)
(* pass it (either variant, any frequency and amplitude of the sets above, *)
(* any starting phase the wrap loop can leave, 0 to TABLE_LENGTH           *)
(* inclusive), over a filled table.                                        *)

InitOsc ==
    /\ variant \in {1, 2}
    /\ pc = "osc"
    /\ argv1 = [kind |-> "unused", val |-> 0]
    /\ target_freq = 0
    /\ targetSet = FALSE
    /\ table = filltable(variant, TABLE_LENGTH)
    /\ wave \in [frequency : Freqs, amplitude : Amps, phase : {0},
                 wavetable : {"table"}, n : 0 .. TLen]
    /\ waveInit = TRUE
    /\ err = paNoError
    /\ streamActive = TRUE
    /\ failedAt = "none"
    /\ ret = "none"
    /\ beyond \in Garbage
    /\ call = Entry(wave, 0)
    /\ k = 0
    /\ n0 = wave.n
    /\ hist = << >>

NextOsc == SineCallbackStep

SpecOsc == InitOsc /\ [][NextOsc]_vars

-----------------------------------------------------------------------------
(* Properties *)

\* C1: in both variants, started from n = 0 with any frequency, the phase
\* index satisfies 0 <= n < TABLE_LENGTH at the start and at the end of
\* every sineCallback call (a call is one step, so: in every state).
C1_PhaseInRange ==
    (streamActive /\ n0 = 0) => (0 <= wave.n /\ wave.n < TLen)

\* The scenario of C2: truncating variant, table length 4 holding
\* [0, 1, 0, -1], amplitude 1, increment exactly one slot, started at n = 0.
C2_Scenario ==
    /\ variant = 1
    /\ TABLE_LENGTH = 4
    /\ table = [i \in 0 .. 3 |-> IF i = 1 THEN SampleScale
                                 ELSE IF i = 3 THEN 0 - SampleScale ELSE 0]
    /\ wave.amplitude = UnitAmp
    /\ Increment(wave.frequency) = PhaseDen
    /\ n0 = 0

\* C2: in that scenario the k-th sample value written (over any number of
\* calls) equals table[k mod 4]: 0, 1, 0, -1, 0, 1, ...
C2_CyclicTraversal ==
    C2_Scenario =>
        \A j \in 1 .. Len(hist) :
            hist[j] = table[((j - 1) \div 2) % TABLE_LENGTH]

\* The struct the oscillator was started with.
Started == [wave EXCEPT !.n = n0]

\* C3: whatever calls produced the k frames so far, the values written and
\* the struct left behind are those of one call with k frames from the
\* starting state (splitting a run into calls changes nothing).
C3_SplitCallsAgree ==
    streamActive =>
        LET one == sineCallback(variant, Started, table, beyond, k)
        IN  /\ hist = Stored(one.writes)
            /\ wave = one.data

\* C3 witness: at least two calls with frames have run, the phase moved and
\* samples differ.
C3_Witness ==
    /\ streamActive
    /\ call.F > 0
    /\ k > call.F
    /\ Len(hist) = 2 * k
    /\ wave.n /= n0
    /\ \E i, j \in 1 .. Len(hist) : hist[i] /= hist[j]

\* C4: a call with framesPerBuffer = F stores to exactly the slots
\* 0 .. 2F-1, once each and in increasing order, slots 2f and 2f+1 holding
\* the value y computed for frame f, and to no slot at or past 2F.
C4_StereoFill ==
    LET F == call.F
    IN  /\ Len(call.writes) = 2 * F
        /\ Len(call.ys) = F
        /\ call.out = 2 * F
        /\ \A j \in 1 .. Len(call.writes) : call.writes[j].slot = j - 1
        /\ \A f \in 0 .. F - 1 :
             /\ call.writes[2 * f + 1].val = call.ys[f + 1]
             /\ call.writes[2 * f + 2].val = call.ys[f + 1]

\* C4 witness: a full-size call whose frames carry different values.
C4_Witness ==
    /\ call.F = MaxFrames
    /\ Len(call.writes) = 2 * MaxFrames
    /\ call.ys[1] /= call.ys[2]

\* C5: the wrap loop leaves n equal to (pre-wrap n) mod TABLE_LENGTH, for
\* every frame of every call.
C5_WrapIsModulo ==
    \A j \in 1 .. Len(call.pre) : call.post[j] = call.pre[j] % TLen

\* C6: when sampleRate/frequency = P is an integer and the increment is
\* exact, P samples from a starting phase n0 in [0, TABLE_LENGTH) return
\* the phase to n0.
C6_PeriodReturns ==
    LET f == wave.frequency
    IN  ( /\ streamActive
          /\ f > 0
          /\ SAMPLE_RATE % f = 0
          /\ Increment(f) * SAMPLE_RATE = f * TLen
          /\ n0 < TLen
          /\ k = SAMPLE_RATE \div f )
        => wave.n = n0

\* C7: main returns paNoError exactly when no lifecycle step jumped to the
\* error handler; after a jump it returns a code other than paNoError.
C7_ExitCode ==
    pc = "returned" => ((ret = paNoError) <=> (failedAt = "none"))

\* C8: wavetable1 treats a missing or non-numeric argument as a usage
\* error: it does not fault on argv[1], and the struct is initialised and
\* the stream run only with a frequency sscanf parsed.
C8_UsageError ==
    variant = 1 =>
        /\ pc /= "crashed"
        /\ (waveInit \/ streamActive) => targetSet

\* C9: started from n = 0, every table index a call reads lies inside the
\* array main declared: 0 .. TABLE_LENGTH-1 for wavetable1,
\* 0 .. TABLE_LENGTH for wavetable2.
C9_ReadsInBounds ==
    n0 = 0 =>
        \A j \in 1 .. Len(call.reads) :
            call.reads[j] \in 0 .. TableSlots(variant) - 1

\* While the stream runs, the table is filled and the struct initialised,
\* and main is at a step that stores to neither.
C10_ReadyBeforeStart ==
    streamActive =>
        /\ waveInit
        /\ table = filltable(variant, TABLE_LENGTH)
        /\ wave.wavetable = "table"
        /\ wave.amplitude = MAX_AMP
        /\ pc \in {"sleep", "stop", "error"}

\* While the stream runs, a step (of main or of the callback) leaves the
\* table, frequency, amplitude, phase field and table pointer as they were.
C10_OnlyPhaseWritten ==
    streamActive =>
        /\ table' = table
        /\ wave'.frequency = wave.frequency
        /\ wave'.amplitude = wave.amplitude
        /\ wave'.phase = wave.phase
        /\ wave'.wavetable = wave.wavetable

\* C10: filltable and the struct's initialisation are complete before the
\* stream starts, and in every interleaving of main with callback calls
\* while the stream runs the only oscillator state written is data->n.
C10_SingleWriter == [] C10_ReadyBeforeStart /\ [][C10_OnlyPhaseWritten]_vars

\* C10 witness: the callback has moved the phase while main went on to
\* Pa_StopStream with the stream still running.
C10_Witness ==
    /\ streamActive
    /\ pc = "stop"
    /\ k > 0
    /\ wave.n /= n0

====
